---- MODULE Spec2Model ----
(***************************************************************************)
(* Model of the leveled logger of src/logger/_logger.py (the Logger the    *)
(* package exports) and of the duplicate implementation in                 *)
(* src/logger/logger.py.                                                   *)
(*                                                                         *)
(* A Python str is a sequence of one-character strings; the element "ESC"  *)
(* stands for the single character U+001B and "\n" for the line feed.      *)
(* A dict is a sequence of <<key, value>> pairs in insertion order.        *)
(***************************************************************************)
EXTENDS Integers, Sequences, FiniteSets, TLC

VARIABLES impl, colors, _level, _issuer, stream, flushed, last

vars == <<impl, colors, _level, _issuer, stream, flushed, last>>

-----------------------------------------------------------------------------
(* Bounds of the model *)

\* number of write calls the sink accepts before the model stops logging
MaxWrites == 2
\* frames the interpreter allows before it raises RecursionError
RecursionLimit == 3
\* integer levels handed to _color_picker range over
\* -NegativeLevels..MaxLevel
NegativeLevels == 3
MaxLevel == 53

-----------------------------------------------------------------------------
(* Characters and text helpers *)

ESC == "ESC"
NL == "\n"

Digit(d) == CASE d = 0 -> "0" [] d = 1 -> "1" [] d = 2 -> "2" [] d = 3 -> "3"
              [] d = 4 -> "4" [] d = 5 -> "5" [] d = 6 -> "6" [] d = 7 -> "7"
              [] d = 8 -> "8" [] d = 9 -> "9"

RECURSIVE NatStr(_)
NatStr(n) == IF n < 10 THEN <<Digit(n)>>
             ELSE NatStr(n \div 10) \o <<Digit(n % 10)>>

\* int.__repr__, which json.dumps uses for integers
IntStr(n) == IF n < 0 THEN <<"-">> \o NatStr(0 - n) ELSE NatStr(n)

-----------------------------------------------------------------------------
(* Levels *)

TRACE == 0
DEBUG == 10
INFO == 20
WARN == 30
ERROR == 40
CRITICAL == 50

LogLevelValues == {TRACE, DEBUG, INFO, WARN, ERROR, CRITICAL}

\* A level carried by a Message: a LogLevel member (member = TRUE) or a bare
\* int, which compares like a member but has no .name attribute.
LogLevel(v) == [value |-> v, member |-> TRUE]
BareInt(v) == [value |-> v, member |-> FALSE]

\* LogLevel.<X>.name
name(level) ==
    CASE level.value = TRACE -> <<"T", "R", "A", "C", "E">>
      [] level.value = DEBUG -> <<"D", "E", "B", "U", "G">>
      [] level.value = INFO -> <<"I", "N", "F", "O">>
      [] level.value = WARN -> <<"W", "A", "R", "N">>
      [] level.value = ERROR -> <<"E", "R", "R", "O", "R">>
      [] level.value = CRITICAL -> <<"C", "R", "I", "T", "I", "C", "A", "L">>

-----------------------------------------------------------------------------
(* Message and its data *)

\* data argument: None (present = FALSE) or a dict
None == [present |-> FALSE, items |-> <<>>]
Dict(items) == [present |-> TRUE, items |-> items]

\* dict values: int, str, or an object json cannot serialize (e.g. a set)
IntV(n) == [type |-> "int", int |-> n, str |-> <<>>]
StrV(s) == [type |-> "str", int |-> 0, str |-> s]
ObjV == [type |-> "object", int |-> 0, str |-> <<>>]

Message(msg, level, issuer, data) ==
    [msg |-> msg, level |-> level, issuer |-> issuer, data |-> data]

\* bool(msg.data): None and the empty dict are falsy
Truthy(data) == data.present /\ Len(data.items) > 0

\* json.encoder.encode_basestring_ascii on one character
EscapeChar(c) ==
    CASE c = "\"" -> <<"\\", "\"">>
      [] c = "\\" -> <<"\\", "\\">>
      [] c = NL -> <<"\\", "n">>
      [] c = ESC -> <<"\\", "u", "0", "0", "1", "b">>
      [] OTHER -> <<c>>

RECURSIVE EscapeStr(_)
EscapeStr(s) == IF s = <<>> THEN <<>>
                ELSE EscapeChar(Head(s)) \o EscapeStr(Tail(s))

JsonStr(s) == <<"\"">> \o EscapeStr(s) \o <<"\"">>

JsonValue(v) == IF v.type = "int" THEN IntStr(v.int) ELSE JsonStr(v.str)

RECURSIVE JsonItems(_)
JsonItems(items) ==
    IF items = <<>> THEN <<>>
    ELSE JsonStr(Head(items)[1]) \o <<":", " ">> \o JsonValue(Head(items)[2])
         \o (IF Len(items) > 1 THEN <<",", " ">> ELSE <<>>)
         \o JsonItems(Tail(items))

\* json.dumps(d) with the default separators; raises TypeError on a value it
\* cannot serialize
json_dumps(data) ==
    IF \E i \in 1..Len(data.items) : data.items[i][2].type = "object"
    THEN [result |-> "TypeError", ret |-> <<>>]
    ELSE [result |-> "returned",
          ret |-> <<"{">> \o JsonItems(data.items) \o <<"}">>]

-----------------------------------------------------------------------------
(* Formatters *)

\* TextLogger._format that always appends the separator
TextLogger_format_sep(msg) ==
    LET dumped == IF Truthy(msg.data) THEN json_dumps(msg.data)
                  ELSE [result |-> "returned", ret |-> <<>>]
    IN  IF dumped.result # "returned" THEN dumped
        ELSE IF ~msg.level.member
             THEN [result |-> "AttributeError", ret |-> <<>>]
        ELSE [result |-> "returned",
              ret |-> <<"(">> \o name(msg.level) \o <<")", "[">> \o msg.issuer
                      \o <<"]", " ">> \o msg.msg
                      \o <<" ", "-", ">", " ">> \o dumped.ret]

\* TextLogger._format
TextLogger_format(msg) ==
    LET dumped == IF Truthy(msg.data) THEN json_dumps(msg.data)
                  ELSE [result |-> "returned", ret |-> <<>>]
    IN  IF dumped.result # "returned" THEN dumped
        ELSE IF ~msg.level.member
             THEN [result |-> "AttributeError", ret |-> <<>>]
        ELSE [result |-> "returned",
              ret |-> <<"(">> \o name(msg.level) \o <<")", "[">> \o msg.issuer
                      \o <<"]", " ">> \o msg.msg
                      \o (IF Len(dumped.ret) > 0
                          THEN <<" ", "-", ">", " ">> \o dumped.ret
                          ELSE <<>>)]

_CLEAR == <<ESC, "[", "0", "m">>

GRAY == <<ESC, "[", "9", "0", "m">>
LIGHT_GRAY == <<ESC, "[", "3", "7", "m">>
BLUE == <<ESC, "[", "3", "4", "m">>
YELLOW == <<ESC, "[", "3", "3", "m">>
BOLD_RED == <<ESC, "[", "3", "1", ";", "1", "m">>
BOLD_MAGENTA == <<ESC, "[", "1", ";", "3", "8", ";", "5", ";", "9", "9", "m">>
BOLD_CYAN == <<ESC, "[", "1", ";", "3", "8", ";", "5", ";", "5", "1", "m">>

\* _color_picker with the bands closed below and open above
_color_picker_closed_below(level) ==
    IF level = TRACE THEN GRAY
    ELSE IF TRACE <= level /\ level < DEBUG THEN LIGHT_GRAY
    ELSE IF DEBUG <= level /\ level < INFO THEN BLUE
    ELSE IF INFO <= level /\ level < WARN THEN YELLOW
    ELSE IF WARN <= level /\ level < ERROR THEN BOLD_RED
    ELSE IF ERROR <= level /\ level < CRITICAL THEN BOLD_MAGENTA
    ELSE BOLD_CYAN

\* ColorfulLogger._color_picker
_color_picker(level) ==
    IF level = TRACE THEN GRAY
    ELSE IF TRACE < level /\ level <= DEBUG THEN LIGHT_GRAY
    ELSE IF DEBUG < level /\ level <= INFO THEN BLUE
    ELSE IF INFO < level /\ level <= WARN THEN YELLOW
    ELSE IF WARN < level /\ level <= ERROR THEN BOLD_RED
    ELSE IF ERROR < level /\ level <= CRITICAL THEN BOLD_MAGENTA
    ELSE BOLD_CYAN

\* ColorfulLogger._format that resets only after data
ColorfulLogger_format_noreset(msg) ==
    LET dumped == IF Truthy(msg.data) THEN json_dumps(msg.data)
                  ELSE [result |-> "returned", ret |-> <<>>]
    IN  IF dumped.result # "returned" THEN dumped
        ELSE [result |-> "returned",
              ret |-> _color_picker(msg.level.value) \o <<"[">> \o msg.issuer
                      \o <<"]", " ">> \o msg.msg
                      \o (IF Len(dumped.ret) > 0
                          THEN <<" ", "-", ">", " ">> \o dumped.ret \o _CLEAR
                          ELSE <<>>)]

\* ColorfulLogger._format
ColorfulLogger_format(msg) ==
    LET dumped == IF Truthy(msg.data) THEN json_dumps(msg.data)
                  ELSE [result |-> "returned", ret |-> <<>>]
    IN  IF dumped.result # "returned" THEN dumped
        ELSE [result |-> "returned",
              ret |-> _color_picker(msg.level.value) \o <<"[">> \o msg.issuer
                      \o <<"]", " ">> \o msg.msg
                      \o (IF Len(dumped.ret) > 0
                          THEN <<" ", "-", ">", " ">> \o dumped.ret
                          ELSE <<>>)
                      \o _CLEAR]

\* self._format(msg): the override of the class create_logger instantiated
_format(msg) == IF colors THEN ColorfulLogger_format(msg)
                ELSE TextLogger_format(msg)

-----------------------------------------------------------------------------
(* Inputs *)

BOOM == <<"b", "o", "o", "m">>
TICK == <<"t", "i", "c", "k">>
DISK_LOW == <<"d", "i", "s", "k", " ", "l", "o", "w">>
\* a message that carries its own escape sequence and a line feed
RED_X == <<ESC, "[", "3", "1", "m", "x", NL, "y">>
\* a message that contains the text of the separator
A_TO_B == <<"a", " ", "-", ">", " ", "b">>

ROOT == <<"r", "o", "o", "t">>
SVC == <<"s", "v", "c">>
APP == <<"A", "p", "p">>

PCT == Dict(<< <<<<"p", "c", "t">>, IntV(91)>> >>)
B_A == Dict(<< <<<<"b">>, IntV(-5)>>, <<<<"a">>, StrV(<<"x", ESC, "\"">>)>> >>)
EMPTY == Dict(<<>>)
BAD == Dict(<< <<<<"k">>, IntV(1)>>, <<<<"s">>, ObjV>> >>)

\* issuer argument: None, a str, or an object of some class
IssuerArgs == {[type |-> "NoneType", str |-> <<>>, class |-> <<>>],
               [type |-> "str", str |-> SVC, class |-> <<"s", "t", "r">>],
               [type |-> "object", str |-> <<>>, class |-> APP]}

\* LoggerConfig values handed to create_logger (level defaults to INFO)
ConfigLevels == {-1, INFO, WARN}
Configs == [level : ConfigLevels, colors : BOOLEAN]

\* values assigned to log_level
IntArg(n) == [type |-> "int", value |-> n]
SetArgs == {IntArg(-1), IntArg(0), IntArg(25),
            [type |-> "float", value |-> 2], [type |-> "str", value |-> 0]}

\* behaviour of the sink during one call
SinkBehaviours == {"ok", "write_raises", "flush_raises"}

MemberLevels == {LogLevel(v) : v \in LogLevelValues}

\* messages handed to log() on a long-lived logger
LogMessages ==
    {Message(BOOM, l, _issuer, None) :
        l \in {LogLevel(DEBUG), LogLevel(INFO), LogLevel(WARN), BareInt(25)}}
    \cup {Message(DISK_LOW, LogLevel(WARN), _issuer, d) :
            d \in {PCT, EMPTY, BAD}}

\* messages handed to the formatters directly
FormatMessages ==
    {Message(m, l, i, d) :
        m \in {BOOM, DISK_LOW, RED_X, A_TO_B},
        l \in MemberLevels \cup {BareInt(25), BareInt(-2), BareInt(60)},
        i \in {ROOT, SVC},
        d \in {None, EMPTY, PCT, B_A, BAD}}

\* arguments of the convenience methods; omitted = TRUE leaves data out
DataArgs == {[omitted |-> TRUE, data |-> None],
             [omitted |-> FALSE, data |-> PCT]}

-----------------------------------------------------------------------------
(* Record of the most recent call, for stating properties *)

NoMessage == Message(<<>>, LogLevel(TRACE), <<>>, None)

Call(op, msg, arg, io, out) ==
    [op |-> op, msg |-> msg, arg |-> arg, io |-> io,
     thr |-> _level, before |-> stream, flushedBefore |-> flushed,
     result |-> out.result, ret |-> out.ret, steps |-> out.steps,
     checks |-> out.checks, logcalls |-> out.logcalls]

-----------------------------------------------------------------------------
(* Logger of src/logger/_logger.py *)

\* Logger.__init__: the issuer is kept if it is a str, else its class name
Logger_init_issuer(issuer) ==
    IF issuer.type # "str" THEN issuer.class ELSE issuer.str

\* create_logger: a None issuer becomes "root"
create_logger_issuer(issuer) ==
    IF issuer.type = "NoneType" THEN ROOT ELSE Logger_init_issuer(issuer)

\* the setter without the sign test
log_level_setter_unsigned(level) ==
    IF level.type # "int"
    THEN [result |-> "ValueError", level |-> _level]
    ELSE [result |-> "returned", level |-> level.value]

\* log_level setter
log_level_setter(level) ==
    IF level.type # "int" \/ level.value < 0
    THEN [result |-> "ValueError", level |-> _level]
    ELSE [result |-> "returned", level |-> level.value]

\* __log that swallows what the formatter and the sink raise
__log_swallow(msg, io) ==
    LET formatted == _format(msg)
        written == Append(stream, formatted.ret \o <<NL>>)
    IN  IF formatted.result # "returned"
        THEN [result |-> "returned", stream |-> stream, flushed |-> flushed,
              steps |-> <<"format">>]
        ELSE IF io = "write_raises"
        THEN [result |-> "returned", stream |-> stream, flushed |-> flushed,
              steps |-> <<"format", "write">>]
        ELSE IF io = "flush_raises"
        THEN [result |-> "returned", stream |-> written, flushed |-> flushed,
              steps |-> <<"format", "write", "flush">>]
        ELSE [result |-> "returned", stream |-> written,
              flushed |-> Len(written),
              steps |-> <<"format", "write", "flush">>]

\* __log that does not flush
__log_noflush(msg, io) ==
    LET formatted == _format(msg)
        written == Append(stream, formatted.ret \o <<NL>>)
    IN  IF formatted.result # "returned"
        THEN [result |-> formatted.result, stream |-> stream,
              flushed |-> flushed, steps |-> <<"format">>]
        ELSE IF io = "write_raises"
        THEN [result |-> "WriteError", stream |-> stream, flushed |-> flushed,
              steps |-> <<"format", "write">>]
        ELSE [result |-> "returned", stream |-> written, flushed |-> flushed,
              steps |-> <<"format", "write">>]

\* Logger.__log: format, write the line, flush
__log(msg, io) ==
    LET formatted == _format(msg)
        written == Append(stream, formatted.ret \o <<NL>>)
    IN  IF formatted.result # "returned"
        THEN [result |-> formatted.result, stream |-> stream,
              flushed |-> flushed, steps |-> <<"format">>]
        ELSE IF io = "write_raises"
        THEN [result |-> "WriteError", stream |-> stream, flushed |-> flushed,
              steps |-> <<"format", "write">>]
        ELSE IF io = "flush_raises"
        THEN [result |-> "FlushError", stream |-> written, flushed |-> flushed,
              steps |-> <<"format", "write", "flush">>]
        ELSE [result |-> "returned", stream |-> written,
              flushed |-> Len(written),
              steps |-> <<"format", "write", "flush">>]

Filtered == [result |-> "returned", stream |-> stream, flushed |-> flushed,
             steps |-> <<>>]

\* Logger.log that also discards the level equal to the threshold
log_le(msg, io) ==
    IF msg.level.value <= _level THEN Filtered ELSE __log(msg, io)

\* Logger.log
log(msg, io) ==
    IF msg.level.value < _level THEN Filtered ELSE __log(msg, io)

Out(r, ret, checks, logcalls) ==
    [result |-> r.result, ret |-> ret, steps |-> r.steps,
     checks |-> checks, logcalls |-> logcalls]

-----------------------------------------------------------------------------
(* Actions of the exported Logger *)

Log(msg, io) ==
    /\ impl = "_logger"
    /\ Len(stream) < MaxWrites
    /\ LET r == log(msg, io)
       IN  /\ stream' = r.stream
           /\ flushed' = r.flushed
           /\ last' = Call("log", msg, IntArg(0), io, Out(r, <<>>, 1, 0))
    /\ UNCHANGED <<impl, colors, _level, _issuer>>

SetLevel(level) ==
    /\ impl = "_logger"
    /\ LET r == log_level_setter(level)
       IN  /\ _level' = r.level
           /\ last' = Call("log_level", NoMessage, level, "ok",
                           [result |-> r.result, ret |-> <<>>, steps |-> <<>>,
                            checks |-> 0, logcalls |-> 0])
    /\ UNCHANGED <<impl, colors, _issuer, stream, flushed>>

\* body shared by trace .. critical: build the Message, hand it to log once
Convenience(op, value, text, arg, io) ==
    /\ impl = "_logger"
    /\ Len(stream) < MaxWrites
    /\ LET message == Message(text, LogLevel(value), _issuer, arg.data)
           r == log(message, io)
       IN  /\ stream' = r.stream
           /\ flushed' = r.flushed
           /\ last' = Call(op, message, IntArg(0), io, Out(r, <<>>, 1, 1))
    /\ UNCHANGED <<impl, colors, _level, _issuer>>

trace == \E a \in DataArgs, io \in SinkBehaviours :
            Convenience("trace", TRACE, TICK, a, io)
debug == \E a \in DataArgs, io \in SinkBehaviours :
            Convenience("debug", DEBUG, TICK, a, io)
info == \E a \in DataArgs, io \in SinkBehaviours :
            Convenience("info", INFO, TICK, a, io)
warning == \E a \in DataArgs, io \in SinkBehaviours :
            Convenience("warning", WARN, TICK, a, io)
error == \E a \in DataArgs, io \in SinkBehaviours :
            Convenience("error", ERROR, TICK, a, io)
critical == \E a \in DataArgs, io \in SinkBehaviours :
            Convenience("critical", CRITICAL, TICK, a, io)

\* state after create_logger(config, issuer) with an empty sink
Constructed(module) ==
    /\ impl = module
    /\ \E config \in Configs, issuer \in IssuerArgs :
          /\ colors = config.colors
          /\ _level = config.level
          /\ _issuer = create_logger_issuer(issuer)
    /\ stream = <<>>
    /\ flushed = 0
    /\ last = [op |-> "create_logger", msg |-> NoMessage, arg |-> IntArg(0),
               io |-> "ok", thr |-> _level, before |-> <<>>,
               flushedBefore |-> 0, result |-> "returned", ret |-> <<>>,
               steps |-> <<>>, checks |-> 0, logcalls |-> 0]

Init == Constructed("_logger")

Next ==
    \/ \E msg \in LogMessages, io \in SinkBehaviours : Log(msg, io)
    \/ \E level \in SetArgs : SetLevel(level)

Spec == Init /\ [][Next]_vars

-----------------------------------------------------------------------------
(* The formatters and the color lookup called on their own *)

Format(msg) ==
    /\ impl = "_logger"
    /\ LET r == _format(msg)
       IN  last' = Call("_format", msg, IntArg(0), "ok",
                        [result |-> r.result, ret |-> r.ret, steps |-> <<>>,
                         checks |-> 0, logcalls |-> 0])
    /\ UNCHANGED <<impl, colors, _level, _issuer, stream, flushed>>

PickColor(level) ==
    /\ impl = "_logger"
    /\ colors
    /\ last' = Call("_color_picker", NoMessage, IntArg(level), "ok",
                    [result |-> "returned", ret |-> _color_picker(level),
                     steps |-> <<>>, checks |-> 0, logcalls |-> 0])
    /\ UNCHANGED <<impl, colors, _level, _issuer, stream, flushed>>

NextFormat ==
    \/ \E msg \in FormatMessages : Format(msg)
    \/ \E level \in (0 - NegativeLevels)..MaxLevel : PickColor(level)

SpecFormat == Init /\ [][NextFormat]_vars

-----------------------------------------------------------------------------
(* Logger of src/logger/logger.py *)

\* Logger.log of logger.py: an accepted message is handed to log again, one
\* frame deeper, until the interpreter refuses another frame
RECURSIVE logger_log(_, _)
logger_log(msg, depth) ==
    IF depth > RecursionLimit
    THEN [result |-> "RecursionError", steps |-> <<>>, checks |-> depth - 1]
    ELSE IF msg.level.value < _level
    THEN [result |-> "returned", steps |-> <<>>, checks |-> depth]
    ELSE logger_log(msg, depth + 1)

LoggerLog(msg) ==
    /\ impl = "logger"
    /\ LET r == logger_log(msg, 1)
       IN  last' = Call("log", msg, IntArg(0), "ok",
                        [result |-> r.result, ret |-> <<>>, steps |-> r.steps,
                         checks |-> r.checks, logcalls |-> 0])
    /\ UNCHANGED <<impl, colors, _level, _issuer, stream, flushed>>

\* body shared by the convenience methods of logger.py; data has no default
LoggerConvenience(op, value, text, arg) ==
    /\ impl = "logger"
    /\ IF arg.omitted
       THEN last' = Call(op, NoMessage, IntArg(0), "ok",
                         [result |-> "TypeError", ret |-> <<>>,
                          steps |-> <<>>, checks |-> 0, logcalls |-> 0])
       ELSE LET message == Message(text, LogLevel(value), _issuer, arg.data)
                r == logger_log(message, 1)
            IN  last' = Call(op, message, IntArg(0), "ok",
                             [result |-> r.result, ret |-> <<>>,
                              steps |-> r.steps, checks |-> r.checks,
                              logcalls |-> 1])
    /\ UNCHANGED <<impl, colors, _level, _issuer, stream, flushed>>

logger_trace == \E a \in DataArgs : LoggerConvenience("trace", TRACE, TICK, a)
logger_debug == \E a \in DataArgs : LoggerConvenience("debug", DEBUG, TICK, a)
logger_info == \E a \in DataArgs : LoggerConvenience("info", INFO, TICK, a)
logger_warning ==
    \E a \in DataArgs : LoggerConvenience("warning", WARN, TICK, a)
logger_critical ==
    \E a \in DataArgs : LoggerConvenience("critical", TRACE, TICK, a)
logger_fatal ==
    \E a \in DataArgs : LoggerConvenience("fatal", TRACE, TICK, a)

InitBoth == Constructed("_logger") \/ Constructed("logger")

NextBoth ==
    \/ \E msg \in LogMessages, io \in SinkBehaviours : Log(msg, io)
    \/ trace
    \/ debug
    \/ info
    \/ warning
    \/ error
    \/ critical
    \/ \E msg \in LogMessages : LoggerLog(msg)
    \/ logger_trace
    \/ logger_debug
    \/ logger_info
    \/ logger_warning
    \/ logger_critical
    \/ logger_fatal

SpecBoth == InitBoth /\ [][NextBoth]_vars

-----------------------------------------------------------------------------
(* Vocabulary of the properties *)

StartsWith(s, prefix) ==
    Len(s) >= Len(prefix) /\ SubSeq(s, 1, Len(prefix)) = prefix

EndsWith(s, suffix) ==
    Len(s) >= Len(suffix)
    /\ SubSeq(s, Len(s) - Len(suffix) + 1, Len(s)) = suffix

Count(s, c) == Cardinality({i \in 1..Len(s) : s[i] = c})

Serializable(data) ==
    \A i \in 1..Len(data.items) : data.items[i][2].type # "object"

\* the active formatter can render the message
Formattable(msg) ==
    /\ Truthy(msg.data) => Serializable(msg.data)
    /\ colors \/ msg.level.member

Accepted == last.msg.level.value >= last.thr

ConvenienceOps == {"trace", "debug", "info", "warning", "error", "critical"}

RankOf(op) == CASE op = "trace" -> TRACE [] op = "debug" -> DEBUG
                [] op = "info" -> INFO [] op = "warning" -> WARN
                [] op = "error" -> ERROR [] op = "critical" -> CRITICAL

-----------------------------------------------------------------------------
(* C1 *)

\* C1 as stated: a log call (of a message whose level is one of the six
\* ranks, under a non-negative threshold) below the threshold in effect
\* appends nothing to the sink, and
\* every such call at or above it appends exactly one newline-terminated line
\* after the lines of the earlier calls.
C1_EveryAcceptedCallAppends ==
    (last.op = "log" /\ last.msg.level.member /\ last.thr >= 0) =>
        IF ~Accepted THEN stream = last.before
        ELSE /\ Len(stream) = Len(last.before) + 1
             /\ SubSeq(stream, 1, Len(last.before)) = last.before
             /\ EndsWith(stream[Len(stream)], <<NL>>)

\* C1 amended: a log call below the threshold appends nothing; a call at or
\* above it appends, after the earlier lines, exactly the formatted message
\* followed by one newline when formatting and the write succeed, and appends
\* nothing and raises when formatting or the write fails.
C1_AcceptedCallAppendsUnlessItFails ==
    last.op = "log" =>
        /\ ~Accepted => stream = last.before /\ last.result = "returned"
        /\ (Accepted /\ Formattable(last.msg) /\ last.io # "write_raises") =>
              stream = Append(last.before, _format(last.msg).ret \o <<NL>>)
        /\ (Accepted /\ (~Formattable(last.msg) \/ last.io = "write_raises")) =>
              stream = last.before /\ last.result # "returned"

\* a second line was appended by an event whose level equals the threshold
C1_Witness ==
    /\ last.op = "log"
    /\ last.msg.level.value = last.thr
    /\ last.result = "returned"
    /\ Len(last.before) = 1
    /\ Len(stream) = 2

-----------------------------------------------------------------------------
(* C2 *)

\* C2: assigning log_level a negative or non-integer value raises ValueError
\* and keeps the stored threshold; a non-negative integer replaces it.
C2_SetterValidates ==
    last.op = "log_level" =>
        IF last.arg.type = "int" /\ last.arg.value >= 0
        THEN last.result = "returned" /\ _level = last.arg.value
        ELSE last.result = "ValueError" /\ _level = last.thr

\* a negative assignment was rejected after an earlier assignment of 25
C2_Witness ==
    /\ last.op = "log_level"
    /\ last.arg = IntArg(-1)
    /\ last.result = "ValueError"
    /\ _level = 25

-----------------------------------------------------------------------------
(* C3 *)

\* C3: in every reachable state of a Logger, whatever configuration built it,
\* the stored threshold is a non-negative rank.
C3_ThresholdNonNegative == _level >= 0

-----------------------------------------------------------------------------
(* C4 *)

\* C4: _color_picker maps every integer level to one color by bands that are
\* open below and closed above (0 gray, 1..10 light gray, 11..20 blue,
\* 21..30 yellow, 31..40 bold red, 41..50 bold magenta, above 50 bold cyan),
\* and the colored line of an ERROR message starts with the bold-red escape.
C4_ColorBands ==
    /\ last.op = "_color_picker" =>
          LET L == last.arg.value
          IN  /\ L = 0 => last.ret = <<ESC, "[", "9", "0", "m">>
              /\ (0 < L /\ L <= 10) => last.ret = <<ESC, "[", "3", "7", "m">>
              /\ (10 < L /\ L <= 20) => last.ret = <<ESC, "[", "3", "4", "m">>
              /\ (20 < L /\ L <= 30) => last.ret = <<ESC, "[", "3", "3", "m">>
              /\ (30 < L /\ L <= 40) =>
                    last.ret = <<ESC, "[", "3", "1", ";", "1", "m">>
              /\ (40 < L /\ L <= 50) =>
                    last.ret = <<ESC, "[", "1", ";", "3", "8", ";", "5", ";",
                                 "9", "9", "m">>
              /\ L > 50 =>
                    last.ret = <<ESC, "[", "1", ";", "3", "8", ";", "5", ";",
                                 "5", "1", "m">>
    /\ (last.op = "_format" /\ colors /\ last.result = "returned"
        /\ last.msg.level.value = 40) =>
          StartsWith(last.ret, <<ESC, "[", "3", "1", ";", "1", "m">>)

\* the level between INFO and WARN was looked up and got the WARN-band color
C4_Witness ==
    /\ last.op = "_color_picker"
    /\ last.arg.value = 25
    /\ last.ret = YELLOW

-----------------------------------------------------------------------------
(* C5 *)

\* C5 as stated: for every message (formatted by a logger whose threshold is a
\* non-negative rank) the color formatter's output ends with the
\* reset sequence and the plain formatter's output contains no escape
\* character.
C5_PlainHasNoEscape ==
    (last.op = "_format" /\ last.result = "returned" /\ _level >= 0) =>
        IF colors THEN EndsWith(last.ret, <<ESC, "[", "0", "m">>)
        ELSE Count(last.ret, ESC) = 0

\* C5 amended: the color formatter's output ends with the reset sequence, and
\* the plain formatter's output contains exactly the escape characters of the
\* message text and the issuer (it adds none, and those in data are escaped).
C5_PlainAddsNoEscape ==
    (last.op = "_format" /\ last.result = "returned") =>
        IF colors THEN EndsWith(last.ret, <<ESC, "[", "0", "m">>)
        ELSE Count(last.ret, ESC)
                = Count(last.msg.msg, ESC) + Count(last.msg.issuer, ESC)

\* the plain formatter rendered a message whose text and data both hold an
\* escape character
C5_Witness ==
    /\ last.op = "_format"
    /\ ~colors
    /\ last.result = "returned"
    /\ last.msg.msg = RED_X
    /\ last.msg.data = B_A
    /\ Count(last.ret, ESC) = 1

-----------------------------------------------------------------------------
(* C6 *)

\* C6: for a message with a named level and serializable data the plain
\* formatter returns "(LEVELNAME)[issuer] message", followed by " -> " and the
\* JSON rendering of data exactly when data is non-empty; warning("disk low",
\* {pct: 91}) on issuer svc renders as (WARN)[svc] disk low -> {"pct": 91}.
C6_PlainShape ==
    (last.op = "_format" /\ ~colors /\ last.msg.level.member
     /\ Serializable(last.msg.data)) =>
        LET m == last.msg
            base == <<"(">> \o name(m.level) \o <<")", "[">> \o m.issuer
                    \o <<"]", " ">> \o m.msg
        IN  /\ last.result = "returned"
            /\ Truthy(m.data) =>
                  last.ret = base \o <<" ", "-", ">", " ">>
                             \o json_dumps(m.data).ret
            /\ ~Truthy(m.data) => last.ret = base
            /\ m = Message(DISK_LOW, LogLevel(WARN), SVC, PCT) =>
                  last.ret = <<"(", "W", "A", "R", "N", ")", "[", "s", "v",
                               "c", "]", " ", "d", "i", "s", "k", " ", "l",
                               "o", "w", " ", "-", ">", " ", "{", "\"", "p",
                               "c", "t", "\"", ":", " ", "9", "1", "}">>

\* the plain formatter rendered a message with an empty dict
C6_Witness ==
    /\ last.op = "_format"
    /\ ~colors
    /\ last.msg = Message(DISK_LOW, LogLevel(WARN), SVC, EMPTY)
    /\ last.ret = <<"(", "W", "A", "R", "N", ")", "[", "s", "v", "c", "]",
                    " ", "d", "i", "s", "k", " ", "l", "o", "w">>

-----------------------------------------------------------------------------
(* C7 *)

\* C7: in both Logger classes (threshold a non-negative rank) every
\* convenience method whose call binds its arguments builds a message with the level of the method's name and the
\* logger's issuer and hands it to log exactly once.
C7_ConvenienceBuildsNamedLevel ==
    (last.op \in ConvenienceOps /\ last.thr >= 0
     /\ ~(impl = "logger" /\ last.result = "TypeError")) =>
        /\ last.logcalls = 1
        /\ last.msg.level = LogLevel(RankOf(last.op))
        /\ last.msg.issuer = _issuer
        /\ ~last.msg.data.present => ~Truthy(last.msg.data)

-----------------------------------------------------------------------------
(* C8 *)

\* C8: an accepted log call whose data cannot be serialized raises that error
\* and writes nothing; one whose sink write or flush fails raises that error;
\* only a call below the threshold returns without having written.
C8_NoFailureSwallowed ==
    last.op = "log" =>
        /\ (Accepted /\ Truthy(last.msg.data)
            /\ ~Serializable(last.msg.data)) =>
              /\ last.result = "TypeError"
              /\ stream = last.before
              /\ flushed = last.flushedBefore
        /\ (Accepted /\ Formattable(last.msg) /\ last.io = "write_raises") =>
              last.result = "WriteError"
        /\ (Accepted /\ Formattable(last.msg) /\ last.io = "flush_raises") =>
              last.result = "FlushError"
        /\ (Accepted /\ ~Formattable(last.msg)) => last.result # "returned"
        /\ (last.result = "returned" /\ stream = last.before) => ~Accepted

\* an accepted message with unserializable data made log raise
C8_Witness ==
    /\ last.op = "log"
    /\ Accepted
    /\ last.msg.data = BAD
    /\ last.result = "TypeError"
    /\ stream = last.before

-----------------------------------------------------------------------------
(* C9 *)

\* C9: a log call that returns for an accepted message has made one format
\* call, then one write of the formatted string plus a single newline, then
\* one flush that covers the write; a write is never left without a flush
\* call after it; a filtered message causes no format, write or flush.
C9_FormatWriteFlush ==
    last.op = "log" =>
        /\ ~Accepted =>
              /\ last.steps = <<>>
              /\ stream = last.before
              /\ flushed = last.flushedBefore
        /\ (Accepted /\ last.result = "returned") =>
              /\ last.steps = <<"format", "write", "flush">>
              /\ stream = Append(last.before, _format(last.msg).ret \o <<NL>>)
              /\ flushed = Len(stream)
        /\ Accepted =>
              /\ Len(last.steps) >= 1
              /\ last.steps
                    = SubSeq(<<"format", "write", "flush">>, 1, Len(last.steps))
        /\ stream # last.before =>
              Len(last.steps) = 3 /\ last.steps[3] = "flush"

\* an accepted message was written and flushed after an earlier line
C9_Witness ==
    /\ last.op = "log"
    /\ Accepted
    /\ last.result = "returned"
    /\ Len(last.before) = 1
    /\ flushed = 2

-----------------------------------------------------------------------------
(* C10 *)

\* C10: in both implementations (threshold a non-negative rank) every call of
\* log or of a convenience method with a renderable message and a working
\* sink returns, after at most one
\* write, also when the level is at or above the threshold.
C10_EveryCallReturns ==
    (last.op \in ConvenienceOps \cup {"log"} /\ last.thr >= 0
     /\ last.io = "ok" /\ Formattable(last.msg)
     /\ ~(impl = "logger" /\ last.result = "TypeError")) =>
        /\ last.result = "returned"
        /\ Len(stream) <= Len(last.before) + 1

====
